---- MODULE Spec2Model ----
(***************************************************************************)
(* A model of package rxlib's state-communication channel (src/scc.go):    *)
(* SCChan records on a heap, master and follower interfaces that point to  *)
(* them, and the calls NewSCChan, MInterface, FInterface, WhatsUp, State.  *)
(*                                                                         *)
(* Spec     : every call runs to completion before the next one starts     *)
(*            (single-threaded use).                                       *)
(* SpecRace : calls of State and WhatsUp made by concurrent goroutines on  *)
(*            one channel, interleaved at the granularity of one field     *)
(*            access (the code takes no lock).                             *)
(***************************************************************************)
EXTENDS Integers, Sequences, FiniteSets, TLC

VARIABLES
    heap,    \* the SCChan objects allocated so far; a *SCChan is an index
    mInts,   \* the SCCMInterface values handed out, in order of creation
    fInts,   \* the SCCFInterface values handed out, in order of creation
    last,    \* the call that completed last: its inputs and outputs
    hist,    \* history: the receivers of the minting calls, and the
             \* channels on which State has been called
    thr,     \* SpecRace: the frame of each goroutine
    writer,  \* SpecRace: which State call last wrote each field
    calls    \* SpecRace: number of State calls started

vars == <<heap, mInts, fInts, last, hist, thr, writer, calls>>

\* Section A of the source: the states a follower can be in.
UnableToStart == 0
NowActive == 1
Failed == 2
NowDead == 3

\* Bounds of the model.
MaxChans == 2
MaxViews == 3
MaxExtra == 1
NumThreads == 2
MaxReports == 2

\* The inputs the calls are tried with. A state is a byte: the four named
\* values and one that Section A does not name. The variadic additionalInfo
\* is empty, or one description followed by up to MaxExtra further strings.
ByteInputs == {UnableToStart, NowActive, Failed, NowDead, 255}
Descs == {"a", "b"}
Extras == {"z"}

RECURSIVE SeqsUpTo(_, _)
SeqsUpTo(S, n) ==
    IF n = 0 THEN {<<>>}
    ELSE LET shorter == SeqsUpTo(S, n - 1)
         IN  shorter \cup {Append(q, x) : q \in {r \in shorter : Len(r) = n - 1}, x \in S}

ArgLists ==
    {<<>>} \cup {<<d>> \o e : d \in Descs, e \in SeqsUpTo(Extras, MaxExtra)}

NoCall == [op |-> "none"]

-----------------------------------------------------------------------------
(* The data and the pure parts of the methods.                             *)

\* Mutant: the constructor presets a state.
SCChanPreset == [followerState |-> NowActive, additionalInfo |-> ""]

\* &SCChan {} : both fields hold Go's zero value.
SCChan == [followerState |-> 0, additionalInfo |-> ""]

\* Mutant: the state passed in is the one stored.
WriteStateArg(ch, state) == [ch EXCEPT !.followerState = state]

\* fInt.underlyingChan.followerState = UnableToStart
WriteState(ch, state) == [ch EXCEPT !.followerState = UnableToStart]

\* Mutant: an omitted description clears the stored one.
WriteInfoClears(ch, additionalInfo) ==
    IF Len(additionalInfo) > 0
    THEN [ch EXCEPT !.additionalInfo = additionalInfo[1]]
    ELSE [ch EXCEPT !.additionalInfo = ""]

\* Mutant: the last string passed is the one stored.
WriteInfoLast(ch, additionalInfo) ==
    IF Len(additionalInfo) > 0
    THEN [ch EXCEPT !.additionalInfo = additionalInfo[Len(additionalInfo)]]
    ELSE ch

\* if len (additionalInfo) > 0 { ....additionalInfo = additionalInfo [0] }
WriteInfo(ch, additionalInfo) ==
    IF Len(additionalInfo) > 0
    THEN [ch EXCEPT !.additionalInfo = additionalInfo[1]]
    ELSE ch

\* Mutant: the record is one package-level value, so every channel changes.
StateBodyGlobal(h, c, state, additionalInfo) ==
    [a \in DOMAIN h |-> WriteInfo(WriteState(h[a], state), additionalInfo)]

\* The heap after the body of State has run on the channel at address c.
StateBody(h, c, state, additionalInfo) ==
    [h EXCEPT ![c] = WriteInfo(WriteState(h[c], state), additionalInfo)]

\* return mInt.underlyingChan.followerState, mInt.underlyingChan.additionalInfo
WhatsUpOut(h, mInt) ==
    <<h[mInt.underlyingChan].followerState, h[mInt.underlyingChan].additionalInfo>>

-----------------------------------------------------------------------------
(* Spec: the calls, each run to completion.                                *)

Init ==
    /\ heap = <<>>
    /\ mInts = <<>>
    /\ fInts = <<>>
    /\ last = NoCall
    /\ hist = [mOn |-> <<>>, fOn |-> <<>>, reported |-> {}]
    /\ thr = [t \in 1..NumThreads |-> [pc |-> "idle"]]
    /\ writer = <<>>
    /\ calls = 0

NewSCChan ==
    /\ Len(heap) < MaxChans
    /\ heap' = Append(heap, SCChan)
    /\ last' = [op |-> "NewSCChan", out |-> Len(heap) + 1]
    /\ UNCHANGED <<mInts, fInts, hist, thr, writer, calls>>

\* Mutant: the interface gets a copy of the channel.
MInterfaceCopies(scChan) ==
    /\ Len(mInts) + Len(fInts) < MaxViews
    /\ heap' = Append(heap, heap[scChan])
    /\ mInts' = Append(mInts, [underlyingChan |-> Len(heap) + 1])
    /\ hist' = [hist EXCEPT !.mOn = Append(@, scChan)]
    /\ last' = [op |-> "MInterface", on |-> scChan, out |-> Len(mInts) + 1]
    /\ UNCHANGED <<fInts, thr, writer, calls>>

MInterface(scChan) ==
    /\ Len(mInts) + Len(fInts) < MaxViews
    /\ mInts' = Append(mInts, [underlyingChan |-> scChan])
    /\ hist' = [hist EXCEPT !.mOn = Append(@, scChan)]
    /\ last' = [op |-> "MInterface", on |-> scChan, out |-> Len(mInts) + 1]
    /\ UNCHANGED <<heap, fInts, thr, writer, calls>>

FInterface(scChan) ==
    /\ Len(mInts) + Len(fInts) < MaxViews
    /\ fInts' = Append(fInts, [underlyingChan |-> scChan])
    /\ hist' = [hist EXCEPT !.fOn = Append(@, scChan)]
    /\ last' = [op |-> "FInterface", on |-> scChan, out |-> Len(fInts) + 1]
    /\ UNCHANGED <<heap, mInts, thr, writer, calls>>

\* Mutant: reading the description consumes it.
WhatsUpConsumes(m) ==
    /\ last' = [op |-> "WhatsUp", on |-> m, out |-> WhatsUpOut(heap, mInts[m])]
    /\ heap' = [heap EXCEPT ![mInts[m].underlyingChan].additionalInfo = ""]
    /\ UNCHANGED <<mInts, fInts, hist, thr, writer, calls>>

WhatsUp(m) ==
    /\ last' = [op |-> "WhatsUp", on |-> m, out |-> WhatsUpOut(heap, mInts[m])]
    /\ UNCHANGED <<heap, mInts, fInts, hist, thr, writer, calls>>

State(f, state, additionalInfo) ==
    /\ heap' = StateBody(heap, fInts[f].underlyingChan, state, additionalInfo)
    /\ hist' = [hist EXCEPT !.reported = @ \cup {fInts[f].underlyingChan}]
    /\ last' = [op |-> "State", on |-> f, state |-> state,
                additionalInfo |-> additionalInfo]
    /\ UNCHANGED <<mInts, fInts, thr, writer, calls>>

Next ==
    \/ NewSCChan
    \/ \E c \in 1..Len(heap) : MInterface(c)
    \/ \E c \in 1..Len(heap) : FInterface(c)
    \/ \E m \in 1..Len(mInts) : WhatsUp(m)
    \/ \E f \in 1..Len(fInts), state \in ByteInputs, additionalInfo \in ArgLists :
            State(f, state, additionalInfo)

Spec == Init /\ [][Next]_vars

-----------------------------------------------------------------------------
(* SpecRace: goroutines call State and WhatsUp on one channel without any  *)
(* synchronisation. The code takes no lock, so the calls interleave at     *)
(* each field access: State stores followerState (line 114) and then, if a *)
(* description was passed, additionalInfo (lines 115 to 117); WhatsUp      *)
(* loads the two fields (line 85) in an order Go leaves open. A string is  *)
(* a two-word value: a load or store of additionalInfo that races with a   *)
(* store of it may see or leave a mix of the two strings, TornString.      *)

TornString == "<mixed words of two strings>"

Idle == [pc |-> "idle"]

\* scc := NewSCChan (); mInterface := scc.MInterface (); fInterface := scc.FInterface ()
InitRace ==
    /\ heap = <<SCChan>>
    /\ mInts = <<[underlyingChan |-> 1]>>
    /\ fInts = <<[underlyingChan |-> 1]>>
    /\ last = NoCall
    /\ hist = [mOn |-> <<1>>, fOn |-> <<1>>, reported |-> {}]
    /\ thr = [t \in 1..NumThreads |-> Idle]
    /\ writer = <<[followerState |-> 0, additionalInfo |-> 0]>>
    /\ calls = <<>>

\* Another goroutine is about to store a description into channel c.
StorePending(t, c) ==
    \E r \in (1..NumThreads) \ {t} :
        /\ thr[r].pc = "s115"
        /\ Len(thr[r].additionalInfo) > 0
        /\ fInts[thr[r].f].underlyingChan = c

\* Mutant: the call stores both fields in its first step.
StateEnterBoth(t, f, state, additionalInfo) ==
    LET c == fInts[f].underlyingChan
        id == Len(calls) + 1
    IN  /\ thr[t].pc = "idle"
        /\ Len(calls) < MaxReports
        /\ heap' = StateBody(heap, c, state, additionalInfo)
        /\ writer' = [writer EXCEPT ![c].followerState = id,
                                    ![c].additionalInfo =
                                        IF Len(additionalInfo) > 0 THEN id ELSE @]
        /\ calls' = Append(calls, Len(additionalInfo) > 0)
        /\ hist' = [hist EXCEPT !.reported = @ \cup {c}]
        /\ thr' = [thr EXCEPT ![t] = [pc |-> "s115", f |-> f,
                                      additionalInfo |-> additionalInfo, id |-> id]]
        /\ UNCHANGED <<mInts, fInts, last>>

\* Line 114: the call starts and stores followerState. The parameter state is
\* not read again, so the frame does not keep it.
StateEnter(t, f, state, additionalInfo) ==
    LET c == fInts[f].underlyingChan
        id == Len(calls) + 1
    IN  /\ thr[t].pc = "idle"
        /\ Len(calls) < MaxReports
        /\ heap' = [heap EXCEPT ![c] = WriteState(@, state)]
        /\ writer' = [writer EXCEPT ![c].followerState = id]
        /\ calls' = Append(calls, Len(additionalInfo) > 0)
        /\ hist' = [hist EXCEPT !.reported = @ \cup {c}]
        /\ thr' = [thr EXCEPT ![t] = [pc |-> "s115", f |-> f,
                                      additionalInfo |-> additionalInfo, id |-> id]]
        /\ UNCHANGED <<mInts, fInts, last>>

\* Lines 115 to 118: the description, if one was passed, is stored, and the
\* call returns. A store that races with another store may leave TornString.
StateReturn(t) ==
    LET c == fInts[thr[t].f].underlyingChan
        stores == Len(thr[t].additionalInfo) > 0
    IN  /\ thr[t].pc = "s115"
        /\ \/ heap' = [heap EXCEPT ![c] = WriteInfo(@, thr[t].additionalInfo)]
           \/ /\ stores /\ StorePending(t, c)
              /\ heap' = [heap EXCEPT ![c].additionalInfo = TornString]
        /\ writer' = [writer EXCEPT ![c].additionalInfo =
                                        IF stores THEN thr[t].id ELSE @]
        /\ last' = [op |-> "State", on |-> thr[t].f,
                    additionalInfo |-> thr[t].additionalInfo]
        /\ thr' = [thr EXCEPT ![t] = Idle]
        /\ UNCHANGED <<mInts, fInts, hist, calls>>

\* What a load of field fld of channel c by goroutine t may yield.
Loads(t, c, fld) ==
    {heap[c][fld]} \cup
        (IF fld = "additionalInfo" /\ StorePending(t, c) THEN {TornString} ELSE {})

\* Line 85, first operand evaluated: one of the two fields is loaded.
WhatsUpEnter(t, m, fld) ==
    LET c == mInts[m].underlyingChan
    IN  /\ thr[t].pc = "idle"
        /\ \E v \in Loads(t, c, fld) :
                thr' = [thr EXCEPT ![t] = [pc |-> "w85", m |-> m, fld |-> fld,
                                           val |-> v, by |-> writer[c][fld]]]
        /\ UNCHANGED <<heap, mInts, fInts, last, hist, writer, calls>>

\* Line 85, second operand evaluated: the other field is loaded and the call
\* returns the pair; "by" records which State call had stored each value.
WhatsUpReturn(t) ==
    LET c == mInts[thr[t].m].underlyingChan
        other == IF thr[t].fld = "followerState" THEN "additionalInfo"
                 ELSE "followerState"
    IN  /\ thr[t].pc = "w85"
        /\ \E v \in Loads(t, c, other) :
                last' = [op |-> "WhatsUp", on |-> thr[t].m,
                         out |-> IF other = "additionalInfo"
                                 THEN <<thr[t].val, v>> ELSE <<v, thr[t].val>>,
                         by |-> IF other = "additionalInfo"
                                THEN <<thr[t].by, writer[c][other]>>
                                ELSE <<writer[c][other], thr[t].by>>]
        /\ thr' = [thr EXCEPT ![t] = Idle]
        /\ UNCHANGED <<heap, mInts, fInts, hist, writer, calls>>

NextRace ==
    \/ \E t \in 1..NumThreads, f \in 1..Len(fInts), state \in ByteInputs,
          additionalInfo \in ArgLists : StateEnter(t, f, state, additionalInfo)
    \/ \E t \in 1..NumThreads : StateReturn(t)
    \/ \E t \in 1..NumThreads, m \in 1..Len(mInts),
          fld \in {"followerState", "additionalInfo"} : WhatsUpEnter(t, m, fld)
    \/ \E t \in 1..NumThreads : WhatsUpReturn(t)

SpecRace == InitRace /\ [][NextRace]_vars

-----------------------------------------------------------------------------
(* Properties of Spec.                                                     *)

Named == {UnableToStart, NowActive, Failed, NowDead}

\* The channel behind the interface the last call was made on.
LastMChan == mInts[last.on].underlyingChan
LastFChan == fInts[last.on].underlyingChan

\* A State call that supplied a description is directly followed by a
\* WhatsUp call on the same channel.
ReportThenQuery ==
    /\ last.op = "State"
    /\ Len(last.additionalInfo) > 0
    /\ last'.op = "WhatsUp"
    /\ mInts'[last'.on].underlyingChan = fInts[last.on].underlyingChan

\* C1: after State (s, d), the next WhatsUp on the same channel returns
\* exactly (s, d), for every byte s and every description d.
C1_ReadAfterWrite ==
    [][ReportThenQuery => last'.out = <<last.state, last.additionalInfo[1]>>]_vars

\* C2: WhatsUp on a channel that State was never called on returns
\* (UnableToStart, ""), and such a channel holds exactly the zero value.
C2_DefaultState ==
    /\ \A c \in (1..Len(heap)) \ hist.reported :
            heap[c] = [followerState |-> UnableToStart, additionalInfo |-> ""]
    /\ (last.op = "WhatsUp" /\ LastMChan \notin hist.reported)
            => last.out = <<UnableToStart, "">>

C2_Witness ==
    /\ last.op = "WhatsUp"
    /\ LastMChan \notin hist.reported
    /\ hist.reported # {}

\* C3: a State call without a description leaves the stored description as it
\* was, and the stored description of a channel changes only in a State call
\* on that channel that supplies a description.
C3_DescriptionOmission ==
    [][/\ (last'.op = "State" /\ Len(last'.additionalInfo) = 0) =>
            \A c \in 1..Len(heap) : heap'[c].additionalInfo = heap[c].additionalInfo
       /\ \A c \in 1..Len(heap) :
            heap'[c].additionalInfo # heap[c].additionalInfo =>
                /\ last'.op = "State"
                /\ Len(last'.additionalInfo) > 0
                /\ fInts'[last'.on].underlyingChan = c]_vars

C3_Witness ==
    /\ last.op = "State"
    /\ last.additionalInfo = <<>>
    /\ heap[LastFChan].additionalInfo \in Descs
    /\ \E c \in 1..Len(heap) : c \in hist.reported /\ heap[c].additionalInfo = ""

\* C4: a State call with more than one string leaves the heap as the same call
\* with only the first string would, and the first string is the one stored.
C4_ExcessIgnored ==
    [][(last'.op = "State" /\ Len(last'.additionalInfo) > 1) =>
            /\ heap' = StateBody(heap, fInts'[last'.on].underlyingChan, last'.state,
                                 <<last'.additionalInfo[1]>>)
            /\ heap'[fInts'[last'.on].underlyingChan].additionalInfo
                    = last'.additionalInfo[1]]_vars

C4_Witness ==
    /\ last.op = "State"
    /\ Len(last.additionalInfo) > 1
    /\ last.additionalInfo[2] # last.additionalInfo[1]
    /\ heap[LastFChan].additionalInfo = last.additionalInfo[1]

\* Every interface points at the channel it was obtained from: WhatsUp on a
\* master interface answers with what that channel stores.
C5_SharedInv ==
    /\ \A m \in 1..Len(mInts) :
            WhatsUpOut(heap, mInts[m]) =
                <<heap[hist.mOn[m]].followerState, heap[hist.mOn[m]].additionalInfo>>
    /\ \A m1, m2 \in 1..Len(mInts) :
            hist.mOn[m1] = hist.mOn[m2] =>
                WhatsUpOut(heap, mInts[m1]) = WhatsUpOut(heap, mInts[m2])
    /\ \A f \in 1..Len(fInts) : fInts[f].underlyingChan = hist.fOn[f]

\* C5: all master interfaces obtained from one channel get the same pair from
\* WhatsUp, the one stored in that channel, whatever calls were made through
\* its follower interfaces; obtaining an interface leaves the heap as it was.
C5_ViewsShareRecord ==
    /\ []C5_SharedInv
    /\ [][last'.op \in {"MInterface", "FInterface"} => heap' = heap]_vars

C5_Witness ==
    /\ last.op = "WhatsUp"
    /\ last.out[2] \in Descs
    /\ \E m \in 1..Len(mInts) : m # last.on /\ hist.mOn[m] = hist.mOn[last.on]
    /\ \E f \in 1..Len(fInts) : hist.fOn[f] = hist.mOn[last.on]

\* C6: a State call changes no channel but the one behind the follower
\* interface it is made on.
C6_NoCrossTalk ==
    [][last'.op = "State" =>
            \A c \in (1..Len(heap)) \ {fInts'[last'.on].underlyingChan} :
                heap'[c] = heap[c]]_vars

C6_Witness ==
    /\ last.op = "State"
    /\ Len(last.additionalInfo) > 0
    /\ \E c \in 1..Len(heap) :
            c # LastFChan /\ heap[c].additionalInfo # heap[LastFChan].additionalInfo

\* C7: WhatsUp changes no channel and no interface, two WhatsUp calls in a row
\* on one channel return the same pair, and every master interface points at
\* an allocated channel, so the call always has a pair to return.
C7_QueryPure ==
    /\ [](\A m \in 1..Len(mInts) : mInts[m].underlyingChan \in 1..Len(heap))
    /\ [][last'.op = "WhatsUp" =>
            /\ heap' = heap /\ mInts' = mInts /\ fInts' = fInts
            /\ (last.op = "WhatsUp" /\
                mInts[last.on].underlyingChan = mInts[last'.on].underlyingChan)
                    => last'.out = last.out]_vars

C7_Witness ==
    /\ last.op = "WhatsUp"
    /\ last.out[2] \in Descs
    /\ heap[LastMChan].additionalInfo = last.out[2]

\* Every stored state, and every state WhatsUp returned, is UnableToStart.
C8_StoredUnableToStart ==
    /\ \A c \in 1..Len(heap) : heap[c].followerState = UnableToStart
    /\ last.op = "WhatsUp" => last.out[1] = UnableToStart

C9_Enumeration ==
    \A c \in 1..Len(heap) : heap[c].followerState \in Named

C9_Witness ==
    /\ last.op = "State"
    /\ last.state \notin Named
    /\ heap[LastFChan].followerState \in Named

-----------------------------------------------------------------------------
(* Properties of SpecRace.                                                 *)

\* The State call whose description a channel holds once call i and all calls
\* before it have run one after the other (0: none, the initial description).
RECURSIVE SerialInfo(_)
SerialInfo(i) == IF i = 0 \/ calls[i] THEN i ELSE SerialInfo(i - 1)

\* A State call that passed a description has stored the state, not yet the
\* description.
MidReport(r) == thr[r].pc = "s115" /\ Len(thr[r].additionalInfo) > 0

\* C10: State stores the two fields in two steps and nothing keeps WhatsUp
\* out between them: while a State call that passed a description is between
\* the steps, the channel holds its state (or a later call's) without its
\* description, a goroutine that is idle can start WhatsUp, and a WhatsUp
\* that returned the state stored by that call returned it with a
\* description stored by another call (or the initial one).
C10_NonAtomicUpdate ==
    \A r \in 1..NumThreads : MidReport(r) =>
        LET c == fInts[thr[r].f].underlyingChan
        IN  /\ writer[c].followerState >= thr[r].id
            /\ writer[c].additionalInfo # thr[r].id
            /\ \A t \in 1..NumThreads : thr[t].pc = "idle" =>
                    \A m \in 1..Len(mInts) : ENABLED WhatsUpEnter(t, m, "followerState")
            /\ (last.op = "WhatsUp" /\ last.by[1] = thr[r].id)
                    => last.by[2] # last.by[1]

\* A WhatsUp call returned two intact values that no channel ever held
\* together between calls: the state of one State call with the description
\* of another, although the first had passed its own.
C10_Witness ==
    /\ last.op = "WhatsUp"
    /\ last.out[2] # TornString
    /\ last.by[1] > 0
    /\ calls[last.by[1]]
    /\ last.by[2] # last.by[1]
    /\ last.by[2] # SerialInfo(last.by[1])

====
